---- MODULE Spec2Model ----
(***************************************************************************)
(* State-machine model of src/fuzzy_matcher.py, a Streamlit script.  One   *)
(* browser session is modelled after a CSV file has been uploaded: the     *)
(* state holds the uploaded table, the widget values, st.session_state,    *)
(* the locals of the matching loop while "Run Fuzzy Match" executes, and   *)
(* the elements the last script run put on the page.                       *)
(***************************************************************************)
EXTENDS Integers, Sequences, FiniteSets, TLC

\* ---------------------------------------------------------------- bounds
\* Largest number of rows of the uploaded CSV.
MaxRows == 2

\* ------------------------------------------------------------- constants
\* st.slider(min_value=0, max_value=100)
SliderMin == 0
SliderMax == 100

\* ------------------------------------------------------------ the inputs
\* A missing cell of the CSV (pandas NaN) and Python's None.
NaN == "<NaN>"
None == "<None>"

\* The text values a cell can hold.  "ab cd" and "cd ab" are the same words in
\* another order; "xy" has no character in common with either.
Strs == {"ab cd", "cd ab", "xy"}
MainCells == {"ab cd", "xy", NaN}
TargetCells == Strs \cup {NaN}

\* Threshold values the slider is moved to (all inside min_value..max_value).
Thresholds == {SliderMin, 40, SliderMax}

\* Options of the algorithm selectbox, in the order they are listed.
MatchMethods == {"Ratio", "Partial Ratio", "Token Sort Ratio", "Token Set Ratio"}

\* Options of the filter radio.
FilterOptions == {"All", "Matches Only", "No Matches Only"}

\* Uploaded tables: rows of the two selected columns, up to MaxRows rows.
Rows == [main : MainCells, target : TargetCells]
DataFrames == UNION {[1..n -> Rows] : n \in 0..MaxRows}

VARIABLES
    df,             \* the uploaded table (main and target column)
    match_method,   \* selectbox value
    threshold,      \* slider value
    filter_option,  \* radio value (key "filter_radio")
    session_state,  \* st.session_state: whether result_df is set, and its value
    pc,             \* "idle": no script running; "loop": inside the matching loop
    main_items,     \* locals of the button handler
    target_items,
    results,
    idx,            \* number of loop iterations done (enumerate index of the next)
    progress_bar,   \* last value given to the progress bar, <<num, den>>
    status_text,    \* last (done, total) written to the status text
    page            \* what the results section of the last script run rendered

vars == <<df, match_method, threshold, filter_option, session_state, pc,
          main_items, target_items, results, idx, progress_bar, status_text, page>>

\* --------------------------------------------------------------- pandas
\* df[column]
Column(frame, column) == [i \in 1..Len(frame) |-> frame[i][column]]

\* Series.dropna()
NotNa(c) == c # NaN
DropNa(col) == SelectSeq(col, NotNa)

\* Series.unique(): distinct values in order of first occurrence
RECURSIVE UniqueFrom(_, _)
UniqueFrom(col, seen) ==
    IF col = <<>> THEN <<>>
    ELSE IF Head(col) \in seen THEN UniqueFrom(Tail(col), seen)
    ELSE <<Head(col)>> \o UniqueFrom(Tail(col), seen \cup {Head(col)})
Unique(col) == UniqueFrom(col, {})

\* Mutation of MainItems: the query column is deduplicated like the pool.
MainItems_deduplicated(frame) == Unique(DropNa(Column(frame, "main")))

\* main_items = df[main_column].dropna().astype(str).tolist()
MainItems(frame) == DropNa(Column(frame, "main"))

\* target_items = df[target_column].dropna().astype(str).unique().tolist()
TargetItems(frame) == Unique(DropNa(Column(frame, "target")))

\* pd.DataFrame(results): a list of dicts gives the dicts' keys as columns;
\* an empty list gives a frame with no columns at all.
ResultColumns == {"Main Item", "Best Match", "Confidence (%)", "Match Status"}
DataFrame(records) ==
    [columns |-> IF records = <<>> THEN {} ELSE ResultColumns, rows |-> records]

\* result_df[result_df['Match Status'] == status]
IsStatus(r, status) == r.MatchStatus = status
WithStatus(rows, status) == SelectSeq(rows, LAMBDA r : IsStatus(r, status))

\* result_df['Confidence (%)'].mean(), kept as the exact fraction <<sum, count>>
\* (count 0 is pandas' NaN)
RECURSIVE SumConfidence(_)
SumConfidence(rows) ==
    IF rows = <<>> THEN 0 ELSE Head(rows).Confidence + SumConfidence(Tail(rows))
Mean(rows) == <<SumConfidence(rows), Len(rows)>>

\* result_df.to_csv(index=False): the header line, then one line per record
CsvLine(r) == <<r.MainItem, r.BestMatch, r.Confidence, r.MatchStatus>>
ToCsv(frame) ==
    <<IF frame.columns = {} THEN <<>>
      ELSE <<"Main Item", "Best Match", "Confidence (%)", "Match Status">>>>
    \o [i \in 1..Len(frame.rows) |-> CsvLine(frame.rows[i])]

\* ------------------------------------------------------------ fuzzywuzzy
\* The four scorers of the fuzzywuzzy library, as their value tables on Strs
\* (the values of its pure-Python implementation).  "ab cd" and "cd ab" are
\* the same tokens in another order; "xy" shares no character with them.
Reordered(a, b) == {a, b} = {"ab cd", "cd ab"}
fuzz_ratio(a, b) == IF a = b THEN 100 ELSE IF Reordered(a, b) THEN 40 ELSE 0
fuzz_partial_ratio(a, b) == IF a = b THEN 100 ELSE IF Reordered(a, b) THEN 57 ELSE 0
fuzz_token_sort_ratio(a, b) == IF a = b \/ Reordered(a, b) THEN 100 ELSE 0
fuzz_token_set_ratio(a, b) == IF a = b \/ Reordered(a, b) THEN 100 ELSE 0

\* ------------------------------------------------------ the matching loop
\* Mutation of Score: the "Partial Ratio" branch calls the plain ratio.
Score_wrong_branch(method, main_item, target_item) ==
    IF method = "Ratio" THEN fuzz_ratio(main_item, target_item)
    ELSE IF method = "Partial Ratio" THEN fuzz_ratio(main_item, target_item)
    ELSE IF method = "Token Sort Ratio" THEN fuzz_token_sort_ratio(main_item, target_item)
    ELSE fuzz_token_set_ratio(main_item, target_item)

\* The if/elif/else dispatch on match_method.
Score(method, main_item, target_item) ==
    IF method = "Ratio" THEN fuzz_ratio(main_item, target_item)
    ELSE IF method = "Partial Ratio" THEN fuzz_partial_ratio(main_item, target_item)
    ELSE IF method = "Token Sort Ratio" THEN fuzz_token_sort_ratio(main_item, target_item)
    ELSE fuzz_token_set_ratio(main_item, target_item)

\* best_match = None; best_score = 0
InitialBest == [best_match |-> None, best_score |-> 0]

\* Mutation of KeepBest: ">=" for ">", so a later equal score overwrites.
KeepBest_later_equal_wins(best, target_item, score) ==
    IF score >= best.best_score
    THEN [best_match |-> target_item, best_score |-> score]
    ELSE best

\* if score > best_score: best_score = score; best_match = target_item
KeepBest(best, target_item, score) ==
    IF score > best.best_score
    THEN [best_match |-> target_item, best_score |-> score]
    ELSE best

\* for target_item in target_items: ...
RECURSIVE ScanTargets(_, _, _, _)
ScanTargets(method, main_item, targets, best) ==
    IF targets = <<>> THEN best
    ELSE ScanTargets(method, main_item, Tail(targets),
                     KeepBest(best, Head(targets), Score(method, main_item, Head(targets))))

\* Mutation of IsMatch: ">" for ">=".
IsMatch_strict(best_score, thr) == best_score > thr

\* is_match = best_score >= threshold
IsMatch(best_score, thr) == best_score >= thr

\* Mutation of BestMatchField: the sentinel is not substituted for None.
BestMatchField_no_sentinel(best_match) == best_match

\* 'Best Match': best_match if best_match else "No match found"
BestMatchField(best_match) ==
    IF best_match # None THEN best_match ELSE "No match found"

\* the dict appended to results; the fields MainItem, BestMatch, Confidence and
\* MatchStatus are the keys 'Main Item', 'Best Match', 'Confidence (%)' and
\* 'Match Status'
ResultRecord(main_item, best, thr) ==
    [ MainItem    |-> main_item,
      BestMatch   |-> BestMatchField(best.best_match),
      Confidence  |-> best.best_score,
      MatchStatus |-> IF IsMatch(best.best_score, thr) THEN "Match" ELSE "No Match" ]

\* Mutation of Progress: idx for idx + 1.
Progress_off_by_one(i, n) == <<i, n>>

\* progress = (idx + 1) / len(main_items), kept as the fraction <<num, den>>;
\* the status text shows the same two numbers
Progress(i, n) == <<i + 1, n>>

\* ------------------------------------------------------ the results section
NoBar == <<>>
EmptyFrame == DataFrame(<<>>)
Blank ==
    [state |-> "blank", total |-> 0, matches |-> 0, no_matches |-> 0,
     avg_confidence |-> <<0, 0>>, display_df |-> <<>>, csv_data |-> <<>>]

\* Mutation of DisplayRows: the two filtered branches are swapped.
DisplayRows_swapped(rows, option) ==
    IF option = "Matches Only" THEN WithStatus(rows, "No Match")
    ELSE IF option = "No Matches Only" THEN WithStatus(rows, "Match")
    ELSE rows

\* if filter_option == "Matches Only": ... elif "No Matches Only": ... else: ...
DisplayRows(rows, option) ==
    IF option = "Matches Only" THEN WithStatus(rows, "Match")
    ELSE IF option = "No Matches Only" THEN WithStatus(rows, "No Match")
    ELSE rows

\* Lines 117-176.  The "Total Items" metric is rendered first; indexing a frame
\* that has no 'Match Status' column raises KeyError and ends the script run.
Render(ss, option) ==
    IF ~ss.has_result_df THEN Blank
    ELSE IF "Match Status" \notin ss.result_df.columns
    THEN [Blank EXCEPT !.state = "KeyError", !.total = Len(ss.result_df.rows)]
    ELSE [state |-> "results",
          total |-> Len(ss.result_df.rows),
          matches |-> Len(WithStatus(ss.result_df.rows, "Match")),
          no_matches |-> Len(WithStatus(ss.result_df.rows, "No Match")),
          avg_confidence |-> Mean(ss.result_df.rows),
          display_df |-> DisplayRows(ss.result_df.rows, option),
          csv_data |-> ToCsv(ss.result_df)]

\* ------------------------------------------------------------------ Init
\* A file is uploaded, the algorithm and the threshold are chosen, nothing has
\* been run yet in this session.
Init ==
    /\ df \in DataFrames
    /\ match_method \in MatchMethods
    /\ threshold \in Thresholds
    /\ filter_option = "All"
    /\ session_state = [has_result_df |-> FALSE, result_df |-> EmptyFrame]
    /\ pc = "idle"
    /\ main_items = <<>>
    /\ target_items = <<>>
    /\ results = <<>>
    /\ idx = 0
    /\ progress_bar = NoBar
    /\ status_text = NoBar
    /\ page = Blank

\* --------------------------------------------------------------- actions
\* The button is clicked: lines 57-69, up to the start of the loop.
BeginRun ==
    /\ pc = "idle"
    /\ main_items' = MainItems(df)
    /\ target_items' = TargetItems(df)
    /\ results' = <<>>
    /\ idx' = 0
    /\ progress_bar' = <<0, 1>>
    /\ status_text' = NoBar
    /\ page' = Blank
    /\ pc' = "loop"
    /\ UNCHANGED <<df, match_method, threshold, filter_option, session_state>>

\* One iteration of "for idx, main_item in enumerate(main_items)": lines 71-105.
ScanItem ==
    /\ pc = "loop"
    /\ idx < Len(main_items)
    /\ LET main_item == main_items[idx + 1]
           best == ScanTargets(match_method, main_item, target_items, InitialBest)
       IN  results' = Append(results, ResultRecord(main_item, best, threshold))
    /\ progress_bar' = Progress(idx, Len(main_items))
    /\ status_text' = Progress(idx, Len(main_items))
    /\ idx' = idx + 1
    /\ UNCHANGED <<df, match_method, threshold, filter_option, session_state, pc,
                   main_items, target_items, page>>

\* The loop is exhausted: lines 107-114, then the results section 117-176.
FinishRun ==
    /\ pc = "loop"
    /\ idx = Len(main_items)
    /\ progress_bar' = NoBar
    /\ status_text' = NoBar
    /\ session_state' = [has_result_df |-> TRUE, result_df |-> DataFrame(results)]
    /\ page' = Render(session_state', filter_option)
    /\ pc' = "idle"
    /\ main_items' = <<>>
    /\ target_items' = <<>>
    /\ results' = <<>>
    /\ idx' = 0
    /\ UNCHANGED <<df, match_method, threshold, filter_option>>

\* The user stops the running script (Streamlit's Stop).  The script has no
\* cancellation check of its own: Streamlit ends the run at the next st.* call,
\* which inside the loop is the progress update after an item is appended.  The
\* locals, results among them, are dropped; line 113 is never reached.
StopScript ==
    /\ pc = "loop"
    /\ pc' = "idle"
    /\ main_items' = <<>>
    /\ target_items' = <<>>
    /\ results' = <<>>
    /\ idx' = 0
    /\ UNCHANGED <<df, match_method, threshold, filter_option, session_state,
                   progress_bar, status_text, page>>

\* The slider is moved: the script reruns with the button not pressed, so only
\* the results section executes.
SetThreshold(t) ==
    /\ pc = "idle"
    /\ t # threshold
    /\ threshold' = t
    /\ progress_bar' = NoBar
    /\ status_text' = NoBar
    /\ page' = Render(session_state, filter_option)
    /\ UNCHANGED <<df, match_method, filter_option, session_state, pc,
                   main_items, target_items, results, idx>>

\* Another filter is picked.  The radio exists only when the last run of the
\* script reached line 139.
SetFilter(f) ==
    /\ pc = "idle"
    /\ page.state = "results"
    /\ f # filter_option
    /\ filter_option' = f
    /\ progress_bar' = NoBar
    /\ status_text' = NoBar
    /\ page' = Render(session_state, f)
    /\ UNCHANGED <<df, match_method, threshold, session_state, pc,
                   main_items, target_items, results, idx>>

Next ==
    \/ BeginRun
    \/ ScanItem
    \/ FinishRun
    \/ StopScript
    \/ \E t \in Thresholds : SetThreshold(t)
    \/ \E f \in FilterOptions : SetFilter(f)

Spec == Init /\ [][Next]_vars

\* ====================================================================
\* Properties.  What a run should give is stated here from the uploaded
\* table itself, not through the operators of the loop.
\* ====================================================================
\* The rows of the table whose main cell is present, and the k-th of them.
QueryRows == {i \in 1..Len(df) : df[i].main # NaN}
NumQueries == Cardinality(QueryRows)
NthQueryRow(k) == CHOOSE i \in QueryRows : Cardinality({j \in QueryRows : j <= i}) = k
NthQuery(k) == df[NthQueryRow(k)].main

\* The distinct present target cells, and the row where each occurs first.
Pool == {df[i].target : i \in 1..Len(df)} \ {NaN}
FirstRow(t) == CHOOSE i \in 1..Len(df) :
                   df[i].target = t /\ \A j \in 1..(i - 1) : df[j].target # t

\* The score of the selected algorithm for one pair.
SelectedScore(q, t) ==
    CASE match_method = "Ratio"            -> fuzz_ratio(q, t)
      [] match_method = "Partial Ratio"    -> fuzz_partial_ratio(q, t)
      [] match_method = "Token Sort Ratio" -> fuzz_token_sort_ratio(q, t)
      [] match_method = "Token Set Ratio"  -> fuzz_token_set_ratio(q, t)
MaxOf(S) == CHOOSE m \in S : \A x \in S : x <= m
MaxScore(q) == MaxOf({SelectedScore(q, t) : t \in Pool} \cup {0})
Tied(q) == {t \in Pool : SelectedScore(q, t) = MaxScore(q)}
FirstTied(q) == CHOOSE t \in Tied(q) : \A u \in Tied(q) : FirstRow(t) <= FirstRow(u)

\* The records produced so far by the running loop and the stored ones.
StoredRows == session_state.result_df.rows
RecordLists ==
    (IF pc = "loop" THEN {results} ELSE {})
    \cup (IF session_state.has_result_df THEN {StoredRows} ELSE {})
Records == UNION {{rows[k] : k \in 1..Len(rows)} : rows \in RecordLists}

C3_FirstTiedWhateverScore ==
    \A r \in Records :
        Cardinality(Tied(r.MainItem)) >= 2 => r.BestMatch = FirstTied(r.MainItem)

\* C3, what the loop does: on a tie at a maximum score above 0 the record names
\* the first tied pool item, in every run; on a tie at score 0 it names no pool
\* item but the sentinel.
C3_FirstTiedAboveZero ==
    \A r \in Records :
        Cardinality(Tied(r.MainItem)) >= 2 =>
            /\ MaxScore(r.MainItem) > 0 => r.BestMatch = FirstTied(r.MainItem)
            /\ MaxScore(r.MainItem) = 0 => r.BestMatch = "No match found"

\* C3, a tie above 0 in two runs: a second run is under way and the stored record of the first run
\* names the first of two pool items tied at 100, which is not the query itself.
C3_Witness ==
    /\ pc = "loop"
    /\ session_state.has_result_df
    /\ \E k \in 1..Len(StoredRows) :
           /\ Cardinality(Tied(StoredRows[k].MainItem)) = 2
           /\ MaxScore(StoredRows[k].MainItem) = 100
           /\ StoredRows[k].BestMatch = "cd ab"
           /\ k <= Len(results) /\ results[k].BestMatch = "cd ab"

C5_StopReturnsCompletedRecords ==
    (pc = "idle" /\ status_text # NoBar) =>
        session_state.has_result_df /\ Len(StoredRows) = status_text[1]

\* C6 as stated: a run over an empty query sequence gives an empty result set
\* whose summary shows total 0, matches 0, no matches 0 and mean 0.
C6_EmptyQuerySummaryIsZero ==
    (session_state.has_result_df /\ NumQueries = 0 /\ page.state # "blank") =>
        /\ StoredRows = <<>>
        /\ page.state = "results"
        /\ page.total = 0 /\ page.matches = 0 /\ page.no_matches = 0
        /\ page.avg_confidence[1] = 0

\* C8: every record's score is the largest score of the selected algorithm over
\* the pool items, and 0 for an empty pool.
C8_ScoreIsMaxOverPool ==
    \A r \in Records : r.Confidence = MaxScore(r.MainItem)

\* C8 witness: a record with score 57, which only Partial Ratio gives, found on
\* the second pool item.
C8_Witness ==
    \E r \in Records :
        /\ r.Confidence = 57
        /\ Cardinality(Pool) = 2
        /\ FirstTied(r.MainItem) = r.BestMatch
        /\ FirstRow(r.BestMatch) = 2

\* C9: each completed item is followed by a progress update (done, total) with
\* done the number of records so far and total the number of queries; done
\* starts at 1, grows by exactly 1 per item and never exceeds total.
C9_ItemStep == pc = "loop" /\ pc' = "loop" /\ results' # results
C9_ProgressAfterEachItem ==
    /\ [](pc = "loop" /\ idx >= 1 =>
            /\ status_text = <<Len(results), NumQueries>>
            /\ progress_bar = status_text
            /\ status_text[1] <= status_text[2])
    /\ [][C9_ItemStep =>
            /\ Len(results') = Len(results) + 1
            /\ status_text' = <<Len(results'), NumQueries>>
            /\ status_text = NoBar => status_text'[1] = 1
            /\ status_text # NoBar => status_text'[1] = status_text[1] + 1]_vars

\* C9 witness: the last of two items is done and the update says 2 of 2.
C9_Witness ==
    pc = "loop" /\ idx = 2 /\ status_text = <<2, 2>> /\ Len(results) = 2

\* C10: the stored result set changes only when a run completes, and then to
\* that run's records; re-display leaves it alone.  What is displayed is the
\* stored records with the selected status, in order; the counts and the CSV
\* come from all stored records, and matches + no matches = total.
C10_Keep(rows, status) ==
    LET kept == {i \in 1..Len(rows) : rows[i].MatchStatus = status}
        nth(k) == CHOOSE i \in kept : Cardinality({j \in kept : j <= i}) = k
    IN  [k \in 1..Cardinality(kept) |-> rows[nth(k)]]
C10_Displayed ==
    page.state = "results" =>
        /\ page.display_df =
               CASE filter_option = "Matches Only"    -> C10_Keep(StoredRows, "Match")
                 [] filter_option = "No Matches Only" -> C10_Keep(StoredRows, "No Match")
                 [] filter_option = "All"             -> StoredRows
        /\ page.total = Len(StoredRows)
        /\ page.matches = Len(C10_Keep(StoredRows, "Match"))
        /\ page.no_matches = Len(C10_Keep(StoredRows, "No Match"))
        /\ page.matches + page.no_matches = page.total
        /\ Len(page.csv_data) = Len(StoredRows) + 1
        /\ \A k \in 1..Len(StoredRows) :
               page.csv_data[k + 1] = <<StoredRows[k].MainItem, StoredRows[k].BestMatch,
                                        StoredRows[k].Confidence, StoredRows[k].MatchStatus>>
C10_StoredOnlyByCompletedRun ==
    session_state' # session_state =>
        /\ pc = "loop" /\ idx = Len(main_items) /\ pc' = "idle"
        /\ session_state'.has_result_df
        /\ session_state'.result_df.rows = results
C10_StoredSetAndDisplay ==
    /\ []C10_Displayed
    /\ [][C10_StoredOnlyByCompletedRun]_vars
    /\ [][filter_option' # filter_option => session_state' = session_state]_vars

\* C10 witness: with "Matches Only" one of two stored records is displayed while
\* the counts are 1 match and 1 no match out of 2.
C10_Witness ==
    /\ page.state = "results"
    /\ filter_option = "Matches Only"
    /\ Len(page.display_df) = 1
    /\ page.total = 2 /\ page.matches = 1 /\ page.no_matches = 1

====
